---- MODULE Spec2Model ----
(***************************************************************************)
(* A model of SimpleAI (src/AI_v1.py): a question-answering loop over a    *)
(* JSON-backed knowledge base, with a rolling conversation history, a      *)
(* two-slot context and a fuzzy-matching fallback.                         *)
(*                                                                         *)
(* Representation.  A Python str is a sequence of symbols; a symbol is a   *)
(* one-character TLA+ string ("a", " ", "="), or, inside texts the program *)
(* only stores and prints (answers), a literal chunk of a format string.   *)
(* A Python dict with string keys chosen by the program (a Turn, the       *)
(* context) is a function whose DOMAIN is the set of keys present.  The    *)
(* knowledge base, whose keys are data, is an insertion-ordered sequence   *)
(* of <<key, value>> pairs with unique keys, as a Python dict is.  The     *)
(* result of dict.get is <<>> for None and <<v>> for the value v.          *)
(***************************************************************************)
EXTENDS Integers, Sequences, FiniteSets, TLC

VARIABLES
    knowledge_base,        \* self.knowledge_base
    file,                  \* the content of self.storage_file
    conversation_history,  \* self.conversation_history
    context,               \* self.context
    pc,                    \* "prompt": run() waits at input(); "done": after break;
                           \* "crashed": an exception ended the process
    question,              \* the line read by the last iteration of run()
    path,                  \* the branch of run() the last iteration took
    output,                \* what the last iteration printed
    fuzzy,                 \* what process.extractOne returned in the last iteration
    teach,                 \* the teach prompt of the last iteration and its reply
    saved,                 \* whether the last iteration called save_knowledge
    recorded,              \* every Turn appended to the history so far, in order
    steps                  \* the number of lines read so far

vars == <<knowledge_base, file, conversation_history, context, pc, question,
          path, output, fuzzy, teach, saved, recorded, steps>>

----------------------------------------------------------------------------
(* Bounds of the model *)

\* lines read in a session of Spec
MaxSteps == 3
\* lines read in a session of SpecLong
MaxLongSteps == 12
\* calls made in a session of SpecLearn
MaxCalls == 3
\* calls made in a session of SpecLookup
MaxLookups == 3
\* lines read in a session of SpecEval
MaxEvals == 3
\* lines read in a session of SpecContext
MaxContextSteps == 7

----------------------------------------------------------------------------
(* Python str *)

UpperCase == <<"A","B","C","D","E","F","G","H","I","J","K","L","M",
               "N","O","P","Q","R","S","T","U","V","W","X","Y","Z">>
LowerCase == <<"a","b","c","d","e","f","g","h","i","j","k","l","m",
               "n","o","p","q","r","s","t","u","v","w","x","y","z">>
Digits == {"0","1","2","3","4","5","6","7","8","9"}
Whitespace == {" ", "\t"}

Letters == 1..26
UpperSet == {UpperCase[i] : i \in Letters}
LowerSet == {LowerCase[i] : i \in Letters}
ToLower == [c \in UpperSet |-> LowerCase[CHOOSE i \in Letters : UpperCase[i] = c]]
ToUpper == [c \in LowerSet |-> UpperCase[CHOOSE i \in Letters : LowerCase[i] = c]]

\* the letter U+0131, LATIN SMALL LETTER DOTLESS I: a letter outside ASCII
\* that is its own lower case and whose upper case is the ASCII letter I
DotlessI == "U+0131"

\* the symbols of ASCII: every one-character symbol of the model
IsAscii(c) == c # DotlessI

LowerChar(c) == IF c \in UpperSet THEN ToLower[c] ELSE c
UpperChar(c) ==
    IF c \in LowerSet THEN ToUpper[c] ELSE IF c = DotlessI THEN "I" ELSE c

\* str.lower()
Lower(s) == [i \in DOMAIN s |-> LowerChar(s[i])]
\* str.upper()
Upper(s) == [i \in DOMAIN s |-> UpperChar(s[i])]

\* sub in s
Contains(s, sub) ==
    \E i \in 1..(Len(s) - Len(sub) + 1) : SubSeq(s, i, i + Len(sub) - 1) = sub

\* str.split(): the maximal runs of non-whitespace symbols, in order
RECURSIVE SplitFrom(_, _, _)
SplitFrom(s, i, word) ==
    IF i > Len(s)
    THEN IF word = <<>> THEN <<>> ELSE <<word>>
    ELSE IF s[i] \in Whitespace
         THEN IF word = <<>>
              THEN SplitFrom(s, i + 1, <<>>)
              ELSE <<word>> \o SplitFrom(s, i + 1, <<>>)
         ELSE SplitFrom(s, i + 1, Append(word, s[i]))

Split(s) == SplitFrom(s, 1, <<>>)

\* " ".join(words)
RECURSIVE Join(_)
Join(words) ==
    IF words = <<>> THEN <<>>
    ELSE IF Len(words) = 1 THEN words[1]
    ELSE words[1] \o <<" ">> \o Join(Tail(words))

\* str.strip()
RECURSIVE LStrip(_)
LStrip(s) == IF s # <<>> /\ s[1] \in Whitespace THEN LStrip(Tail(s)) ELSE s
RECURSIVE RStrip(_)
RStrip(s) ==
    IF s # <<>> /\ s[Len(s)] \in Whitespace THEN RStrip(SubSeq(s, 1, Len(s) - 1)) ELSE s
Strip(s) == RStrip(LStrip(s))

----------------------------------------------------------------------------
(* Python dict.get results and truth *)

None == <<>>
Some(v) == <<v>>

\* "if answer:" for an answer that is None or a str
Truthy(opt) == opt # None /\ opt[1] # <<>>

(* The knowledge base: an insertion-ordered dict from str to str *)

Keys(d) == {d[i][1] : i \in DOMAIN d}

KeyIndex(d, k) ==
    IF \E i \in DOMAIN d : d[i][1] = k
    THEN CHOOSE i \in DOMAIN d : d[i][1] = k
    ELSE 0

\* d.get(k)
DictGet(d, k) == IF KeyIndex(d, k) = 0 THEN None ELSE Some(d[KeyIndex(d, k)][2])

\* d[k] = v that always adds an item
DictSetAppend(d, k, v) == Append(d, <<k, v>>)

\* d[k] = v: an existing key keeps its place, a new key goes last
DictSet(d, k, v) ==
    IF KeyIndex(d, k) = 0
    THEN Append(d, <<k, v>>)
    ELSE [d EXCEPT ![KeyIndex(d, k)] = <<k, v>>]

----------------------------------------------------------------------------
(* json.dump and json.load of a dict from str to str *)

\* a str as JSON writes it between quotes: " and \ are escaped with a \,
\* a character outside ASCII is written as \uXXXX (ensure_ascii)
RECURSIVE JsonEscape(_)
JsonEscape(s) ==
    IF s = <<>> THEN <<>>
    ELSE IF s[1] \in {"\"", "\\"}
         THEN <<"\\", s[1]>> \o JsonEscape(Tail(s))
         ELSE IF ~IsAscii(s[1])
              THEN <<"\\", "u", "0", "1", "3", "1">> \o JsonEscape(Tail(s))
              ELSE <<s[1]>> \o JsonEscape(Tail(s))

\* the characters of a JSON string literal taken as they are written
JsonUnescapeNone(s) == s

\* the str a JSON string literal denotes
RECURSIVE JsonUnescape(_)
JsonUnescape(s) ==
    IF s = <<>> THEN <<>>
    ELSE IF s[1] = "\\" /\ Len(s) >= 6 /\ s[2] = "u"
         THEN <<DotlessI>> \o JsonUnescape(SubSeq(s, 7, Len(s)))
    ELSE IF s[1] = "\\" /\ Len(s) >= 2
         THEN <<s[2]>> \o JsonUnescape(Tail(Tail(s)))
         ELSE <<s[1]>> \o JsonUnescape(Tail(s))

\* json.dump(d, file): one member per item, in the dict's order
JsonDump(d) ==
    [kind |-> "json",
     members |-> [i \in DOMAIN d |-> <<JsonEscape(d[i][1]), JsonEscape(d[i][2])>>]]

\* json.load of an object: members in order, a repeated name overwrites
RECURSIVE JsonObject(_, _)
JsonObject(members, d) ==
    IF members = <<>> THEN d
    ELSE JsonObject(Tail(members),
                    DictSet(d, JsonUnescape(members[1][1]), JsonUnescape(members[1][2])))

\* load_knowledge raises: the bytes of the file are not text in the
\* encoding open() reads with, json.load raises UnicodeDecodeError, and
\* neither except clause catches it
LoadRaises(f) == f.kind = "undecodable"

\* load_knowledge: the dict in the file; {} when the file is missing or is
\* not a JSON document; when it raises, the {} that __init__ assigned before
LoadKnowledge(f) ==
    IF f.kind = "json" THEN JsonObject(f.members, <<>>) ELSE <<>>

\* save_knowledge that opens the file for writing and dumps nothing into it
SaveKnowledgeNothing(d) == JsonDump(<<>>)

\* save_knowledge
SaveKnowledge(d) == JsonDump(d)

----------------------------------------------------------------------------
(* Program constants *)

\* run: len(self.conversation_history) > 10, [-10:]
HistoryLimit == 10
\* analyze_context: self.conversation_history[-5:]
ContextWindow == 5
\* fuzzy_match: score >= 80
Threshold == 80
\* analyze_context: len(words) > 2
TopicWords == 2

ExitCommand == <<"e","x","i","t">>
ViewCommand == <<"v","i","e","w">>
Pronouns == { <<"i","t">>, <<"t","h","i","s">>, <<"t","h","a","t">> }
AlgebraTopic == <<"a","l","g","e","b","r","a">>
ConditionTopic == <<"c","o","n","d","i","t","i","o","n">>

----------------------------------------------------------------------------
(* get_answer and ask_for_answer *)

\* get_answer that looks the question up as it was typed
GetAnswerNoLower(kb, q) == DictGet(kb, q)

\* get_answer
GetAnswer(kb, q) == DictGet(kb, Lower(q))

\* ask_for_answer, the knowledge base: stores nothing
AskForAnswerNothing(kb, q, answer) == kb

\* ask_for_answer, the knowledge base: learns under the key without lower()
AskForAnswerNoLower(kb, q, answer) ==
    IF answer # <<>> THEN DictSet(kb, q, answer) ELSE kb

\* ask_for_answer, the knowledge base after the reply `answer`
AskForAnswer(kb, q, answer) ==
    IF answer # <<>> THEN DictSet(kb, Lower(q), answer) ELSE kb

\* ask_for_answer, the file after the reply `answer`
AskForAnswerFile(f, kb, q, answer) ==
    IF answer # <<>> THEN SaveKnowledge(AskForAnswer(kb, q, answer)) ELSE f

\* ask_for_answer, what it prints
AskForAnswerOutput(q, answer) ==
    << [msg |-> "teach me", text |-> q],
       [msg |-> IF answer # <<>> THEN "thank you" ELSE "later", text |-> <<>>] >>

----------------------------------------------------------------------------
(* solve_algebra and evaluate_condition: the results sympy and eval can give *)

CountOf(s, c) == Cardinality({i \in DOMAIN s : s[i] = c})

\* solve_algebra: str(solution[0]), "No solution found", or the error text
SolveAlgebra(equation) ==
    IF CountOf(equation, "=") # 1
    THEN { <<"Error solving equation: ", "unpack">> }
    ELSE { <<"1">>, <<"No solution found">>, <<"Error solving equation: ", "sympy">> }

\* eval(condition) raises SystemExit: the expression calls exit().
\* SystemExit is not an Exception, so "except Exception" lets it through
EvalExits(condition) == Contains(condition, <<"e","x","i","t","(",")">>)

\* evaluate_condition: the text with eval's value, or the error text; it
\* returns nothing when eval raises SystemExit
EvaluateCondition(condition) ==
    IF EvalExits(condition) THEN {}
    ELSE { <<"The condition '">> \o condition \o <<"' is ", "result">>,
           <<"Error evaluating condition: ", "eval">> }

----------------------------------------------------------------------------
(* analyze_context and get_contextual_answer *)

\* seq[-n:] that takes the whole list
LastNAll(seq, n) == seq

\* seq[-n:]
LastN(seq, n) == IF Len(seq) <= n THEN seq ELSE SubSeq(seq, Len(seq) - n + 1, Len(seq))

\* d[k] = v for a dict the program keys itself
Put(d, k, v) == (k :> v) @@ d

\* d.get(k, "")
GetOrEmpty(d, k) == IF k \in DOMAIN d THEN d[k] ELSE <<>>

\* the loop over recent_history: a Turn's topic and entity, when the Turn has
\* the key, overwrite the context's
RECURSIVE ScanHistory(_, _)
ScanHistory(recent, ctx) ==
    IF recent = <<>> THEN ctx
    ELSE LET interaction == recent[1]
             c1 == IF "topic" \in DOMAIN interaction
                   THEN Put(ctx, "topic", interaction["topic"]) ELSE ctx
             c2 == IF "entity" \in DOMAIN interaction
                   THEN Put(c1, "entity", interaction["entity"]) ELSE c1
         IN ScanHistory(Tail(recent), c2)

\* analyze_context without the return on a pronoun
AnalyzeContextNoPronoun(q, history) ==
    LET scanned == ScanHistory(LastN(history, ContextWindow), <<>>)
        words == Split(Lower(q))
    IN IF Len(words) > TopicWords
       THEN Put(Put(scanned, "topic", Join(SubSeq(words, 1, TopicWords))),
                "entity", words[Len(words)])
       ELSE scanned

\* analyze_context: the value it leaves in self.context
AnalyzeContext(q, history) ==
    LET scanned == ScanHistory(LastN(history, ContextWindow), <<>>)
        words == Split(Lower(q))
    IN IF (\E i \in DOMAIN words : words[i] \in Pronouns) /\ "entity" \in DOMAIN scanned
       THEN scanned
       ELSE IF Len(words) > TopicWords
            THEN Put(Put(scanned, "topic", Join(SubSeq(words, 1, TopicWords))),
                     "entity", words[Len(words)])
            ELSE scanned

\* f"{self.context['topic']} {question} {self.context['entity']}"
ContextualQuestion(ctx, q) == ctx["topic"] \o <<" ">> \o q \o <<" ">> \o ctx["entity"]

\* get_contextual_answer with the plain question looked up first
GetContextualAnswerPlainFirst(kb, ctx, q) ==
    IF Truthy(GetAnswer(kb, q))
    THEN GetAnswer(kb, q)
    ELSE IF "topic" \in DOMAIN ctx /\ "entity" \in DOMAIN ctx
         THEN GetAnswer(kb, ContextualQuestion(ctx, q))
         ELSE None

\* get_contextual_answer, given the context analyze_context left
GetContextualAnswer(kb, ctx, q) ==
    IF /\ "topic" \in DOMAIN ctx /\ "entity" \in DOMAIN ctx
       /\ Truthy(GetAnswer(kb, ContextualQuestion(ctx, q)))
    THEN GetAnswer(kb, ContextualQuestion(ctx, q))
    ELSE GetAnswer(kb, q)

----------------------------------------------------------------------------
(* fuzzy_match *)

IsAlnum(c) == c \in Digits \/ c \in UpperSet \/ c \in LowerSet \/ c = DotlessI

\* fuzzywuzzy's default processor: non-alphanumerics to spaces, lower, strip
FullProcess(s) == Strip(Lower([i \in DOMAIN s |-> IF IsAlnum(s[i]) THEN s[i] ELSE " "]))

\* scores the library's scorer gives two processed strings that differ
PartialScores == {79, 80}

\* the scores the scorer can give a processed query against a processed key:
\* 0 when either is the empty string, 100 when they are the same string, and
\* a value below 100 otherwise
Scores(pq, pk) ==
    IF pq = <<>> \/ pk = <<>> THEN {0}
    ELSE IF pq = pk THEN {100}
    ELSE PartialScores

\* process.extractOne(question, keys): the results it can give on a dict
\* that is not empty: a key with its score, no other key scoring higher and
\* no earlier key scoring as high
ExtractOne(q, kb) ==
    LET pq == FullProcess(q)
        scores == [i \in DOMAIN kb |-> Scores(pq, FullProcess(kb[i][1]))]
    IN { m \in [key : Keys(kb), score : PartialScores \cup {0, 100}] :
           LET i == KeyIndex(kb, m.key)
           IN /\ m.score \in scores[i]
              /\ \A j \in DOMAIN kb \ {i} :
                    \E s2 \in scores[j] : s2 < m.score \/ (s2 = m.score /\ i < j) }

\* "score >= 80" written as "score > 80"
AcceptedAbove(score) == score > Threshold

\* fuzzy_match: score >= 80
Accepted(score) == score >= Threshold

\* fuzzy_match: the key it returns, or None
FuzzyMatch(kb, m) ==
    IF kb = <<>> THEN None
    ELSE IF Accepted(m[1].score) THEN Some(m[1].key) ELSE None

\* what extractOne can have returned when fuzzy_match returns: <<>> when it
\* was not called
Matches(q, kb) == IF kb = <<>> THEN { <<>> } ELSE { <<m>> : m \in ExtractOne(q, kb) }

----------------------------------------------------------------------------
(* run: the classification of a line and the Turns it records *)

IsExit(q) == Lower(q) = ExitCommand
IsView(q) == ~IsExit(q) /\ Lower(q) = ViewCommand

\* '=' in question
IsEquationAnyEquals(q) ==
    ~IsExit(q) /\ ~IsView(q) /\ Contains(q, <<"=">>)

\* '=' in question and '==' not in question
IsEquation(q) ==
    ~IsExit(q) /\ ~IsView(q) /\ Contains(q, <<"=">>) /\ ~Contains(q, <<"=", "=">>)

\* '==' in question
IsCondition(q) ==
    ~IsExit(q) /\ ~IsView(q) /\ ~IsEquation(q) /\ Contains(q, <<"=", "=">>)

IsQuestion(q) == ~IsExit(q) /\ ~IsView(q) /\ ~IsEquation(q) /\ ~IsCondition(q)

\* the append dropped
RecordTurnNever(history, turn) == history

\* self.conversation_history.append(turn)
RecordTurn(history, turn) == Append(history, turn)

\* the Turn of an equation
AlgebraTurn(q, solution) == [question |-> q, answer |-> solution, topic |-> AlgebraTopic]

\* the Turn of a condition
ConditionTurn(q, result) == [question |-> q, answer |-> result, topic |-> ConditionTopic]

\* the Turn of an answered question
AnswerTurn(q, answer, ctx) ==
    [question |-> q, answer |-> answer,
     topic |-> GetOrEmpty(ctx, "topic"), entity |-> GetOrEmpty(ctx, "entity")]

\* the end of an iteration: history[-10:] when the history is longer than 10
Truncate(history) ==
    IF Len(history) > HistoryLimit THEN LastN(history, HistoryLimit) ELSE history

\* view_knowledge: what it prints
RECURSIVE ViewEntries(_)
ViewEntries(kb) ==
    IF kb = <<>> THEN <<>>
    ELSE << [msg |-> "Q", text |-> kb[1][1]], [msg |-> "A", text |-> kb[1][2]] >>
         \o ViewEntries(Tail(kb))

ViewKnowledge(kb) == << [msg |-> "what I know", text |-> <<>>] >> \o ViewEntries(kb)

----------------------------------------------------------------------------
(* The state after SimpleAI(): the knowledge base is loaded from the file *)

InitWith(f) ==
    /\ file = f
    /\ knowledge_base = LoadKnowledge(f)
    /\ conversation_history = <<>>
    /\ context = <<>>
    /\ pc = IF LoadRaises(f) THEN "crashed" ELSE "prompt"
    /\ question = <<>>
    /\ path = "start"
    /\ output = <<>>
    /\ fuzzy = <<>>
    /\ teach = <<>>
    /\ saved = FALSE
    /\ recorded = <<>>
    /\ steps = 0

----------------------------------------------------------------------------
(* run: one iteration of the loop, from input() back to input() or to break *)

\* question.lower() == 'exit'
Exit(q) ==
    /\ pc = "prompt"
    /\ IsExit(q)
    /\ pc' = "done"
    /\ question' = q
    /\ path' = "exit"
    /\ output' = << [msg |-> "goodbye", text |-> <<>>] >>
    /\ fuzzy' = <<>> /\ teach' = <<>> /\ saved' = FALSE
    /\ steps' = steps + 1
    /\ UNCHANGED <<knowledge_base, file, conversation_history, context, recorded>>

\* question.lower() == 'view'
View(q) ==
    /\ pc = "prompt"
    /\ IsView(q)
    /\ question' = q
    /\ path' = "view"
    /\ output' = ViewKnowledge(knowledge_base)
    /\ fuzzy' = <<>> /\ teach' = <<>> /\ saved' = FALSE
    /\ steps' = steps + 1
    /\ UNCHANGED <<knowledge_base, file, conversation_history, context, recorded, pc>>

\* the equation branch; it ends with continue, before the truncation
Equation(q, solution) ==
    /\ pc = "prompt"
    /\ IsEquation(q)
    /\ solution \in SolveAlgebra(q)
    /\ question' = q
    /\ path' = "equation"
    /\ output' = << [msg |-> "solution", text |-> solution] >>
    /\ conversation_history' = RecordTurn(conversation_history, AlgebraTurn(q, solution))
    /\ recorded' = RecordTurn(recorded, AlgebraTurn(q, solution))
    /\ fuzzy' = <<>> /\ teach' = <<>> /\ saved' = FALSE
    /\ steps' = steps + 1
    /\ UNCHANGED <<knowledge_base, file, context, pc>>

\* the condition branch; it ends with continue, before the truncation
Condition(q, result) ==
    /\ pc = "prompt"
    /\ IsCondition(q)
    /\ result \in EvaluateCondition(q)
    /\ question' = q
    /\ path' = "condition"
    /\ output' = << [msg |-> "result", text |-> result] >>
    /\ conversation_history' = RecordTurn(conversation_history, ConditionTurn(q, result))
    /\ recorded' = RecordTurn(recorded, ConditionTurn(q, result))
    /\ fuzzy' = <<>> /\ teach' = <<>> /\ saved' = FALSE
    /\ steps' = steps + 1
    /\ UNCHANGED <<knowledge_base, file, context, pc>>

\* the condition branch when eval raises SystemExit: the exception leaves
\* evaluate_condition and run(), and the process ends
ConditionExits(q) ==
    /\ pc = "prompt"
    /\ IsCondition(q)
    /\ EvalExits(q)
    /\ question' = q
    /\ path' = "condition"
    /\ output' = <<>>
    /\ pc' = "crashed"
    /\ fuzzy' = <<>> /\ teach' = <<>> /\ saved' = FALSE
    /\ steps' = steps + 1
    /\ UNCHANGED <<knowledge_base, file, conversation_history, context, recorded>>

\* the rest of the loop body: an answer was found (contextual or plain lookup)
Answered(q, ctx, answer) ==
    /\ path' = "answered"
    /\ output' = << [msg |-> "answer", text |-> answer] >>
    /\ conversation_history' =
          Truncate(RecordTurn(conversation_history, AnswerTurn(q, answer, ctx)))
    /\ recorded' = RecordTurn(recorded, AnswerTurn(q, answer, ctx))
    /\ fuzzy' = <<>> /\ teach' = <<>> /\ saved' = FALSE
    /\ UNCHANGED <<knowledge_base, file>>

\* the fuzzy match has an answer
FuzzyAnswered(q, ctx, m, answer) ==
    /\ path' = "fuzzy answered"
    /\ output' = << [msg |-> "answer", text |-> answer] >>
    /\ conversation_history' =
          Truncate(RecordTurn(conversation_history, AnswerTurn(q, answer, ctx)))
    /\ recorded' = RecordTurn(recorded, AnswerTurn(q, answer, ctx))
    /\ fuzzy' = m /\ teach' = <<>> /\ saved' = FALSE
    /\ UNCHANGED <<knowledge_base, file>>

\* ask_for_answer(asked) with the user's reply, then the truncation
Teach(asked, m, reply, branch) ==
    /\ path' = branch
    /\ output' = AskForAnswerOutput(asked, reply)
    /\ knowledge_base' = AskForAnswer(knowledge_base, asked, reply)
    /\ file' = AskForAnswerFile(file, knowledge_base, asked, reply)
    /\ saved' = (reply # <<>>)
    /\ teach' = << [question |-> asked, answer |-> reply] >>
    /\ fuzzy' = m
    /\ conversation_history' = Truncate(conversation_history)
    /\ UNCHANGED recorded

\* any other line: contextual answer, fuzzy match, teach; extractOne's result
\* and the user's reply are drawn where the code reads them
Ask(q, replies) ==
    /\ pc = "prompt"
    /\ IsQuestion(q)
    /\ question' = q
    /\ steps' = steps + 1
    /\ UNCHANGED pc
    /\ LET ctx == AnalyzeContext(q, conversation_history)
           answer == GetContextualAnswer(knowledge_base, ctx, q)
       IN /\ context' = ctx
          /\ IF Truthy(answer)
             THEN Answered(q, ctx, answer[1])
             ELSE \E m \in Matches(q, knowledge_base) :
                    LET matched_question == FuzzyMatch(knowledge_base, m)
                    IN IF Truthy(matched_question)
                       THEN IF Truthy(GetAnswer(knowledge_base, matched_question[1]))
                            THEN FuzzyAnswered(q, ctx, m,
                                     GetAnswer(knowledge_base, matched_question[1])[1])
                            ELSE \E reply \in replies :
                                   Teach(matched_question[1], m, reply, "teach matched")
                       ELSE \E reply \in replies : Teach(q, m, reply, "teach")

----------------------------------------------------------------------------
(* The lines, replies and files of the sessions checked *)

Hi == <<"h","i">>
HiCapital == <<"H","i">>
Hj == <<"h","j">>
ABC == <<"a"," ","b"," ","c">>
ABIt == <<"a"," ","b"," ","i","t">>
\* the contextual question of "a b c": topic "a b", entity "c"
ABABCC == <<"a"," ","b"," ","a"," ","b"," ","c"," ","c">>
XEquals1 == <<"x","=","1">>
OneEqualsOne == <<"1","=","=","1">>

Questions ==
    { ExitCommand, <<"V","i","e","w">>, XEquals1, OneEqualsOne,
      HiCapital, ABC, ABIt, <<>> }

\* replies to the teach prompt: Enter alone, and an answer
TeachAnswers == { <<>>, <<"p">> }

JsonFile(members) == [kind |-> "json", members |-> members]

\* the storage file when SimpleAI() runs: absent, text that is not JSON,
\* bytes that are not text, or an object of
\* strings (as this program wrote it, or as somebody else did)
Files ==
    { [kind |-> "missing", members |-> <<>>],
      [kind |-> "corrupt", members |-> <<>>],
      [kind |-> "undecodable", members |-> <<>>],
      JsonFile(<<>>),
      JsonFile(<< <<Hi, <<"p">> >> >>),
      JsonFile(<< <<HiCapital, <<"p">> >> >>),
      JsonFile(<< <<Hi, <<>> >> >>),
      JsonFile(<< <<Hi, <<"p">> >>, <<Hi, <<"q">> >> >>),
      JsonFile(<< <<XEquals1, <<"p">> >>, <<OneEqualsOne, <<"q">> >> >>),
      JsonFile(<< <<ABC, <<"p">> >>, <<ABABCC, <<"q">> >> >>) }

Init == \E f \in Files : InitWith(f)

\* a session of at most MaxSteps lines
Next ==
    \/ \E q \in Questions : steps < MaxSteps /\ Exit(q)
    \/ \E q \in Questions : steps < MaxSteps /\ View(q)
    \/ \E q \in Questions : steps < MaxSteps /\ IsEquation(q)
          /\ \E solution \in SolveAlgebra(q) : Equation(q, solution)
    \/ \E q \in Questions : steps < MaxSteps /\ IsCondition(q)
          /\ \E result \in EvaluateCondition(q) : Condition(q, result)
    \/ \E q \in Questions : steps < MaxSteps /\ Ask(q, TeachAnswers)

Spec == Init /\ [][Next]_vars

\* a long session of one equation and one question, Enter at every teach prompt
NextLong ==
    \/ steps < MaxLongSteps /\ Equation(XEquals1, <<"1">>)
    \/ steps < MaxLongSteps /\ Ask(Hi, { <<>> })

\* it starts without a file, or with a file that answers the question
InitLong ==
    \E f \in { [kind |-> "missing", members |-> <<>>],
                JsonFile(<< <<Hi, <<"p">> >> >>) } : InitWith(f)

SpecLong == InitLong /\ [][NextLong]_vars

----------------------------------------------------------------------------
(* Sessions of equations and conditions, some of which the evaluators fail on *)

ABEqualsC == <<"a","=","b","=","c">>
ExitCondition == <<"e","x","i","t","(",")","=","=","1">>

EvalQuestions == { XEquals1, ABEqualsC, OneEqualsOne, ExitCondition, HiCapital, ExitCommand }

NextEval ==
    \/ \E q \in EvalQuestions : steps < MaxEvals /\ Exit(q)
    \/ \E q \in EvalQuestions : steps < MaxEvals /\ IsEquation(q)
          /\ \E solution \in SolveAlgebra(q) : Equation(q, solution)
    \/ \E q \in EvalQuestions : steps < MaxEvals /\ IsCondition(q)
          /\ \E result \in EvaluateCondition(q) : Condition(q, result)
    \/ \E q \in EvalQuestions : steps < MaxEvals /\ ConditionExits(q)
    \/ \E q \in EvalQuestions : steps < MaxEvals /\ Ask(q, TeachAnswers)

SpecEval == InitLong /\ [][NextEval]_vars

----------------------------------------------------------------------------
(* Sessions long enough for Turns to leave the window of analyze_context, *)
(* over a store that answers every question asked                         *)

ContextQuestions == { HiCapital, ABC, ABIt }

InitContext ==
    InitWith(JsonFile(<< <<Hi, <<"p">> >>, <<ABC, <<"q">> >>, <<ABIt, <<"r">> >> >>))

NextContext ==
    \/ steps < MaxContextSteps /\ Equation(XEquals1, <<"1">>)
    \/ \E q \in ContextQuestions : steps < MaxContextSteps /\ Ask(q, { <<>> })

SpecContext == InitContext /\ [][NextContext]_vars

----------------------------------------------------------------------------
(* ask_for_answer called on its own, as a caller of the class can *)

AskForAnswerCall(q, reply) ==
    /\ pc = "prompt"
    /\ question' = q
    /\ path' = IF reply = <<>> THEN "skipped"
               ELSE IF Lower(q) \in Keys(knowledge_base) THEN "relearned" ELSE "learned"
    /\ output' = AskForAnswerOutput(q, reply)
    /\ knowledge_base' = AskForAnswer(knowledge_base, q, reply)
    /\ file' = AskForAnswerFile(file, knowledge_base, q, reply)
    /\ saved' = (reply # <<>>)
    /\ teach' = << [question |-> q, answer |-> reply] >>
    /\ steps' = steps + 1
    /\ UNCHANGED <<conversation_history, context, pc, fuzzy, recorded>>

LearnQuestions == { Hi, HiCapital, <<"H","I">>, Hj }
LearnAnswers == { <<>>, <<"p">>, <<"\"">> }

NextLearn ==
    \E q \in LearnQuestions : \E reply \in LearnAnswers :
        steps < MaxCalls /\ AskForAnswerCall(q, reply)

SpecLearn == Init /\ [][NextLearn]_vars

----------------------------------------------------------------------------
(* get_answer and ask_for_answer called on their own, over questions that *)
(* differ by case only, inside and outside ASCII                          *)

\* a call of get_answer; what it returns is kept in output
GetAnswerCall(q) ==
    /\ pc = "prompt"
    /\ question' = q
    /\ path' = "looked up"
    /\ output' = << [msg |-> "returned", text |-> GetAnswer(knowledge_base, q)] >>
    /\ saved' = FALSE
    /\ teach' = <<>>
    /\ steps' = steps + 1
    /\ UNCHANGED <<knowledge_base, file, conversation_history, context, pc,
                   fuzzy, recorded>>

LookupQuestions == { Hi, HiCapital, <<"H","I">>, <<DotlessI>>, <<"I">> }
LookupAnswers == { <<"p">>, <<"q">>, <<"\\", "\"">> }

NextLookup ==
    \/ \E q \in LookupQuestions : \E reply \in LookupAnswers :
          steps < MaxLookups /\ AskForAnswerCall(q, reply)
    \/ \E q \in LookupQuestions : steps < MaxLookups /\ GetAnswerCall(q)

SpecLookup == Init /\ [][NextLookup]_vars

----------------------------------------------------------------------------
(* Claims C1 to C5 *)

\* an iteration of run() has just been taken
Stepped == steps' = steps + 1

\* seq is what is left of whole after dropping items from its front
IsSuffix(seq, whole) == Len(seq) <= Len(whole) /\ seq = LastN(whole, Len(seq))

\* the last iteration printed an answer found by lookup or by fuzzy match
PrintedAnswer(out) == out # <<>> /\ out[1].msg = "answer"

\* C1: whenever the loop waits for the next question the history holds at
\* most 10 Turns, and once 10 or more Turns have been recorded it holds
\* exactly the 10 most recently recorded Turns, in recording order.
C1_HistoryBound ==
    pc = "prompt" =>
       /\ Len(conversation_history) <= 10
       /\ Len(recorded) >= 10 => conversation_history = LastN(recorded, 10)

ChangedKeys(d1, d2) == {k \in Keys(d1) \cup Keys(d2) : DictGet(d1, k) # DictGet(d2, k)}

C4_EmptyTeachChangesNothing ==
    [][ (Stepped /\ teach' # <<>> /\ teach'[1].answer = <<>>) =>
          /\ knowledge_base' = knowledge_base
          /\ file' = file
          /\ conversation_history' = conversation_history
          /\ ~saved'
      ]_vars

\* the branches of run() past the classification
LookupPaths == {"answered", "fuzzy answered", "teach matched", "teach"}

----------------------------------------------------------------------------
(* Claims C6 to C10 *)

\* C6: when the context analysed for a question has both topic and entity,
\* the key topic + " " + question + " " + entity is looked up first and its
\* answer, when it has one, is the answer of the iteration even if the plain
\* question is a key with another answer; the plain question is looked up
\* only after that, and either way the Turn recorded carries the context's
\* topic and entity.
C6_LookupPrecedence ==
    [][ (Stepped /\ path' \in LookupPaths) =>
          LET q == question'
              ctx == context'
              both == "topic" \in DOMAIN ctx /\ "entity" \in DOMAIN ctx
              contextual ==
                  IF both
                  THEN DictGet(knowledge_base,
                               Lower(ctx["topic"] \o <<" ">> \o q \o <<" ">> \o ctx["entity"]))
                  ELSE None
              plain == DictGet(knowledge_base, Lower(q))
              turn == recorded'[Len(recorded')]
          IN /\ Truthy(contextual) =>
                   /\ path' = "answered"
                   /\ output' = << [msg |-> "answer", text |-> contextual[1]] >>
                   /\ Len(recorded') = Len(recorded) + 1
                   /\ turn = [question |-> q, answer |-> contextual[1],
                              topic |-> ctx["topic"], entity |-> ctx["entity"]]
             /\ (~Truthy(contextual) /\ Truthy(plain)) =>
                   /\ path' = "answered"
                   /\ output' = << [msg |-> "answer", text |-> plain[1]] >>
                   /\ Len(recorded') = Len(recorded) + 1
                   /\ turn = [question |-> q, answer |-> plain[1],
                              topic |-> GetOrEmpty(ctx, "topic"),
                              entity |-> GetOrEmpty(ctx, "entity")]
      ]_vars

\* C6, its case: "a b c" is answered from the contextual key "a b a b c c"
\* while "a b c" itself is a key with another answer
C6_Witness ==
    /\ path = "answered"
    /\ question = ABC
    /\ context = [topic |-> <<"a"," ","b">>, entity |-> <<"c">>]
    /\ output = << [msg |-> "answer", text |-> <<"q">>] >>
    /\ DictGet(knowledge_base, ABC) = Some(<<"p">>)
    /\ DictGet(knowledge_base, ABABCC) = Some(<<"q">>)

\* C7: with a knowledge base that is not empty, a question no lookup answers
\* is scored against the keys; the best candidate is accepted when its score
\* is 80 or more and rejected when it is 79 or less, and a rejected match
\* leads to the teach prompt for the original question.
C7_FuzzyThreshold ==
    [][ Stepped =>
          /\ (knowledge_base # <<>> /\ path' \in LookupPaths \ {"answered"})
                => fuzzy' # <<>>
          /\ fuzzy' # <<>> =>
                /\ fuzzy'[1].key \in Keys(knowledge_base)
                /\ fuzzy'[1].score >= 80 =>
                      /\ path' \in {"fuzzy answered", "teach matched"}
                      /\ path' = "teach matched" => teach'[1].question = fuzzy'[1].key
                /\ fuzzy'[1].score <= 79 =>
                      /\ path' = "teach"
                      /\ teach' # <<>> /\ teach'[1].question = question'
      ]_vars

\* C7, its case: a best candidate with a score of exactly 80 was accepted
C7_Witness ==
    /\ fuzzy # <<>> /\ fuzzy[1].score = 80
    /\ path = "fuzzy answered"
    /\ teach = <<>>

\* C8: whenever fuzzy_match returns a key inside run(), get_answer of that
\* key returns a present answer, so the branch that prompts teach for the
\* matched question is never taken.
C8_FuzzyMatchHasAnswer ==
    [][ (Stepped /\ fuzzy' # <<>> /\ fuzzy'[1].score >= 80) =>
          /\ Truthy(GetAnswer(knowledge_base, fuzzy'[1].key))
          /\ path' # "teach matched"
      ]_vars

\* C9: with an empty knowledge base nothing is scored, and every line that
\* is not exit, view, an equation or a condition reaches the teach prompt
\* with its own text; after a non-empty reply a to the prompt for q,
\* get_answer(q) gives a and the file holds it.
C9_EmptyStoreTeaches ==
    [][ (/\ Stepped
         /\ knowledge_base = <<>>
         /\ Lower(question') \notin {ExitCommand, ViewCommand}
         /\ ~Contains(question', <<"=">>)) =>
          /\ fuzzy' = <<>>
          /\ path' = "teach"
          /\ Len(teach') = 1 /\ teach'[1].question = question'
          /\ output'[1] = [msg |-> "teach me", text |-> question']
          /\ teach'[1].answer # <<>> =>
                /\ GetAnswer(knowledge_base', question') = Some(teach'[1].answer)
                /\ GetAnswer(LoadKnowledge(file'), question') = Some(teach'[1].answer)
                /\ file'.kind = "json"
          /\ teach'[1].answer = <<>> => knowledge_base' = <<>> /\ file' = file
      ]_vars

\* C9, its case: the first entry was taught into an empty knowledge base
\* that started without a file
C9_Witness ==
    /\ path = "teach" /\ fuzzy = <<>> /\ saved
    /\ teach[1].question = HiCapital
    /\ knowledge_base = << <<Hi, <<"p">> >> >>
    /\ LoadKnowledge(file) = knowledge_base
    /\ steps = 1

\* the number of items of a dict under a key
CountKey(d, k) == Cardinality({i \in DOMAIN d : d[i][1] = k})

\* the number of members of the JSON object in a file under a name
CountMember(f, k) ==
    Cardinality({i \in DOMAIN f.members : JsonUnescape(f.members[i][1]) = k})

\* C10: teaching q, in any casing, with a non-empty answer a leaves
\* get_answer(q) = a whatever was taught for q before (the last write wins),
\* the knowledge base and the file then hold exactly one entry for the
\* lower-cased q, and teaching an answer the store already holds for q
\* leaves the store as it was.
C10_LearnLastWriteWins ==
    [][ (Stepped /\ teach' # <<>> /\ teach'[1].answer # <<>>) =>
          LET q == teach'[1].question
              a == teach'[1].answer
          IN /\ GetAnswer(knowledge_base', q) = Some(a)
             /\ GetAnswer(knowledge_base', Upper(q)) = Some(a)
             /\ CountKey(knowledge_base', Lower(q)) = 1
             /\ file'.kind = "json"
             /\ CountMember(file', Lower(q)) = 1
             /\ GetAnswer(LoadKnowledge(file'), q) = Some(a)
             /\ \A k \in Keys(knowledge_base') : CountKey(knowledge_base', k) = 1
             /\ GetAnswer(knowledge_base, q) = Some(a) => knowledge_base' = knowledge_base
      ]_vars

\* C10, its case: "HI" was taught over an entry "hi" already in the store
C10_Witness ==
    /\ path = "relearned"
    /\ steps >= 2
    /\ teach[1].question = <<"H","I">>
    /\ knowledge_base = << <<Hi, <<"\"">> >> >>
    /\ CountMember(file, Hi) = 1

----------------------------------------------------------------------------
(* Claims C11 to C15 *)

\* C11: for every store state and every question q, get_answer gives the
\* same result for q, for q lower-cased and for q upper-cased.
C11_CaseInsensitive ==
    \A q \in LookupQuestions :
        /\ GetAnswer(knowledge_base, q) = GetAnswer(knowledge_base, Lower(q))
        /\ GetAnswer(knowledge_base, q) = GetAnswer(knowledge_base, Upper(q))

\* C11 as the code has it: get_answer gives the same result for q and for q
\* lower-cased, for every q; and the same result for q upper-cased when q
\* is made of ASCII characters.
C11_AsciiCaseInsensitive ==
    \A q \in LookupQuestions :
        /\ GetAnswer(knowledge_base, q) = GetAnswer(knowledge_base, Lower(q))
        /\ (\A i \in DOMAIN q : IsAscii(q[i])) =>
               GetAnswer(knowledge_base, q) = GetAnswer(knowledge_base, Upper(q))

\* C11, its case: get_answer("Hi") returned the answer taught for "HI"
C11_Witness ==
    /\ path = "looked up"
    /\ question = HiCapital
    /\ output[1].text = Some(<<"q">>)
    /\ GetAnswer(knowledge_base, <<"H","I">>) = Some(<<"q">>)
    /\ GetAnswer(knowledge_base, Hi) = Some(<<"q">>)
    /\ Keys(knowledge_base) = {Hi}

\* C12: in every reachable state, from the load of the backing file on and
\* after any sequence of questions and teach events, every key of the
\* knowledge base equals its own lower-casing.
C12_KeysLowerCased ==
    \A k \in Keys(knowledge_base) : k = Lower(k)

\* the largest number of a non-empty set
MaxOf(S) == CHOOSE x \in S : \A y \in S : y <= x

\* the value the last of the most recent 5 Turns that has the field gives it
ScannedField(history, field) ==
    LET having == {i \in DOMAIN history :
                     i > Len(history) - 5 /\ field \in DOMAIN history[i]}
    IN IF having = {} THEN None ELSE Some(history[MaxOf(having)][field])

\* a field of the context: None when the context does not have it
ContextField(ctx, field) == IF field \in DOMAIN ctx THEN Some(ctx[field]) ELSE None

\* the question has a token that is "it", "this" or "that", in any casing
HasPronoun(q) == \E i \in DOMAIN Split(q) : Lower(Split(q)[i]) \in Pronouns

\* C13: when the scan of the last 5 Turns gave the context an entity and the
\* question has a token among it, this, that, the context of the iteration
\* is exactly the scanned topic and entity, whatever the other tokens of the
\* question and however many there are.
C13_PronounKeepsContext ==
    [][ (Stepped /\ path' \in LookupPaths) =>
          ((HasPronoun(question') /\ ScannedField(conversation_history, "entity") # None) =>
              /\ DOMAIN context' \subseteq {"topic", "entity"}
              /\ ContextField(context', "topic")
                    = ScannedField(conversation_history, "topic")
              /\ ContextField(context', "entity")
                    = ScannedField(conversation_history, "entity"))
      ]_vars

\* C13, its case: "a b it", three tokens, asked after a Turn whose entity is
\* "c": the context keeps the entity "c" and does not take "it"
C13_Witness ==
    /\ path \in LookupPaths
    /\ question = ABIt
    /\ conversation_history # <<>>
    /\ "entity" \in DOMAIN context /\ context["entity"] = <<"c">>
    /\ "topic" \in DOMAIN context /\ context["topic"] = <<"a", " ", "b">>

\* the value the last of the most recent 5 Turns that has a non-empty value
\* of the field gives it
NonEmptyField(history, field) ==
    LET having == {i \in DOMAIN history :
                     /\ i > Len(history) - 5
                     /\ field \in DOMAIN history[i] /\ history[i][field] # <<>>}
    IN IF having = {} THEN None ELSE Some(history[MaxOf(having)][field])

\* C14: the scan of the history takes a Turn's topic, and independently its
\* entity, into the context only when the field is non-empty: a field the
\* context has after the analysis is never empty, a field is the last
\* non-empty one of the window unless the question replaces it, and Turns
\* with an empty entity do not enable the return on a pronoun, so a question
\* of more than two tokens then gives the context its own topic and entity.
C14_ScanTakesNonEmptyOnly ==
    [][ (Stepped /\ path' \in LookupPaths) =>
          LET words == Split(Lower(question'))
              kept == HasPronoun(question')
                        /\ NonEmptyField(conversation_history, "entity") # None
          IN /\ \A field \in DOMAIN context' : context'[field] # <<>>
             /\ (~kept /\ Len(words) > 2) =>
                   /\ ContextField(context', "topic") = Some(Join(SubSeq(words, 1, 2)))
                   /\ ContextField(context', "entity") = Some(words[Len(words)])
             /\ (kept \/ Len(words) <= 2) =>
                   \A field \in {"topic", "entity"} :
                      ContextField(context', field)
                         = NonEmptyField(conversation_history, field)
      ]_vars

----------------------------------------------------------------------------
(* Claims C16 to C20 *)

\* the backing file could not be loaded when the program started
LoadFailed == file.kind # "json"

\* C16: when the backing file is missing or corrupt at construction, the
\* knowledge base starts empty, the history starts empty and the loop waits
\* for a question; the first plain question then reaches the teach prompt
\* with the question as it was typed.
C16_LoadFailureNotFatal ==
    /\ []((steps = 0 /\ LoadFailed) =>
             /\ pc = "prompt"
             /\ knowledge_base = <<>>
             /\ conversation_history = <<>>)
    /\ [][ (steps = 0 /\ LoadFailed /\ Stepped /\ IsQuestion(question')) =>
              /\ path' = "teach"
              /\ teach' # <<>> /\ teach'[1].question = question'
              /\ pc' = "prompt"
         ]_vars

\* C17: every input routed to the equation or the condition branch prints
\* an answer string, the error text when the evaluator failed, records one
\* Turn with the topic "algebra" or "condition" and that string as answer,
\* and leaves the loop at the prompt; every input other than exit leaves the
\* loop at the prompt.
C17_EveryQuestionReachesEnd ==
    [][ Stepped =>
          /\ (IsEquation(question') \/ IsCondition(question')) =>
                /\ pc' = "prompt"
                /\ output' # <<>>
                /\ recorded' = Append(recorded,
                      [question |-> question',
                       answer |-> output'[1].text,
                       topic |-> IF IsEquation(question')
                                 THEN AlgebraTopic ELSE ConditionTopic])
                /\ conversation_history' # <<>>
                /\ conversation_history'[Len(conversation_history')]
                      = recorded'[Len(recorded')]
          /\ ~IsExit(question') => pc' = "prompt"
      ]_vars

\* C18: the context of an iteration depends only on the last 5 Turns and
\* on the question.  When the return on a pronoun does not apply and the
\* question has more than 2 tokens, the topic is its first two lower-cased
\* tokens joined by a space and the entity is its last token, whatever the
\* history gave; with 2 tokens or fewer, each field is what the last Turn of
\* the window that has the field gave it, and absent when none has it.
\* Turns older than the last 5 and the context of the previous question
\* have no part in it.
C18_ContextFromWindowAndQuestion ==
    [][ (Stepped /\ path' \in LookupPaths) =>
          LET words == Split(Lower(question'))
              kept == HasPronoun(question')
                        /\ ScannedField(conversation_history, "entity") # None
          IN /\ DOMAIN context' \subseteq {"topic", "entity"}
             /\ (~kept /\ Len(words) > 2) =>
                   /\ ContextField(context', "topic") = Some(Join(SubSeq(words, 1, 2)))
                   /\ ContextField(context', "entity") = Some(words[Len(words)])
             /\ Len(words) <= 2 =>
                   \A field \in {"topic", "entity"} :
                      ContextField(context', field)
                         = ScannedField(conversation_history, field)
      ]_vars

\* C18, its case: "Hi" asked after "a b c" and five equations: the Turn of
\* "a b c", with entity "c", is older than the window, and the context has
\* the topic of the equations and no entity
C18_Witness ==
    /\ path = "answered"
    /\ question = HiCapital
    /\ Len(recorded) = 7
    /\ recorded[1].question = ABC
    /\ recorded[1].topic = <<"a", " ", "b">> /\ recorded[1].entity = <<"c">>
    /\ \A i \in 2..6 : recorded[i].topic = AlgebraTopic
    /\ DOMAIN context = {"topic"}
    /\ context["topic"] = AlgebraTopic

\* C19: when the contextual and the plain lookup miss and fuzzy_match
\* accepts a key m: if the answer stored under m is present, the iteration
\* prints that answer, shows no teach prompt, leaves the store as it is and
\* appends one Turn with the question as typed (not m), m's answer, and
\* the topic and entity of the context analysed for the question; if m has
\* no answer, the teach prompt is shown for m, no Turn is appended, and a
\* non-empty reply is stored under m, not under the question typed.
C19_FuzzySuccess ==
    [][ (Stepped /\ fuzzy' # <<>> /\ fuzzy'[1].score >= 80) =>
          LET m == fuzzy'[1].key
              stored == DictGet(knowledge_base, m)
          IN /\ Truthy(stored) =>
                   /\ path' = "fuzzy answered"
                   /\ output' = << [msg |-> "answer", text |-> stored[1]] >>
                   /\ teach' = <<>>
                   /\ knowledge_base' = knowledge_base /\ file' = file
                   /\ recorded' = Append(recorded,
                         [question |-> question',
                          answer |-> stored[1],
                          topic |-> GetOrEmpty(context', "topic"),
                          entity |-> GetOrEmpty(context', "entity")])
             /\ ~Truthy(stored) =>
                   /\ path' = "teach matched"
                   /\ Len(teach') = 1 /\ teach'[1].question = m
                   /\ output'[1] = [msg |-> "teach me", text |-> m]
                   /\ recorded' = recorded
                   /\ teach'[1].answer # <<>> =>
                         knowledge_base' = DictSet(knowledge_base, m, teach'[1].answer)
                   /\ teach'[1].answer = <<>> => knowledge_base' = knowledge_base
      ]_vars

\* C20: when a question reached the teach prompt and a non-empty answer a
\* was given, the same question typed as the very next line is answered
\* with a by the lookup, with no fuzzy match and no teach prompt, the store
\* is left as it is and exactly one Turn, with that question and a, is
\* recorded; whatever the history and the other entries of the store.
C20_TeachThenReask ==
    [][ (/\ teach # <<>> /\ teach[1].answer # <<>>
         /\ teach[1].question = question
         /\ Stepped /\ question' = question) =>
          /\ path' = "answered"
          /\ output' = << [msg |-> "answer", text |-> teach[1].answer] >>
          /\ teach' = <<>> /\ fuzzy' = <<>>
          /\ knowledge_base' = knowledge_base /\ file' = file
          /\ Len(recorded') = Len(recorded) + 1
          /\ recorded'[Len(recorded')].question = question
          /\ recorded'[Len(recorded')].answer = teach[1].answer
          /\ pc' = "prompt"
      ]_vars

\* C20, its case: "a b it", which no file has, was taught "p" at the first
\* line and answered "p" at the second
C20_Witness ==
    /\ steps = 2
    /\ path = "answered"
    /\ question = ABIt
    /\ output = << [msg |-> "answer", text |-> <<"p">>] >>
    /\ DictGet(knowledge_base, ABIt) = Some(<<"p">>)
    /\ Len(recorded) = 1
    /\ LoadKnowledge(file) = knowledge_base

====
